---- MODULE Spec2Model ----
(***************************************************************************)
(* Model of the geocode cache logic of the Sao Paulo heat-map scripts.     *)
(*                                                                         *)
(* Five scripts share one cache file, city_coordinates.json.  Each script  *)
(* has its own copy of geocode_cities(city_counts).  Three copies          *)
(* (generate_heatmap.py, generate_heatmap_svg.py, generate_heatmap_image   *)
(* .py) load the cache into the very dict they return; two copies          *)
(* (generate_static_heatmap.py, generate_heatmap_geojson.py) keep the      *)
(* cache in cached_data and build the returned dict separately.            *)
(***************************************************************************)
EXTENDS Integers, Sequences, FiniteSets, TLC

(***************************************************************************)
(* Bounds of the model.                                                    *)
(***************************************************************************)
MaxCities == 2

\* two counts tell a stale count from the current one
Counts == {1, 2}

AllCityNames == <<"Santos", "Jundiai", "Campinas", "Sorocaba", "Bauru">>

CityNames == {AllCityNames[k] : k \in 1..MaxCities}

Latitudes == {-23, -24}

Longitudes == {-46}

(***************************************************************************)
(* The scripts.                                                            *)
(***************************************************************************)
SingleDictScripts ==
    {"generate_heatmap", "generate_heatmap_svg", "generate_heatmap_image"}

SplitDictScripts == {"generate_static_heatmap", "generate_heatmap_geojson"}

Scripts == SingleDictScripts \cup SplitDictScripts

(***************************************************************************)
(* Python dicts keyed by city name, as functions on a set of names.        *)
(***************************************************************************)
EmptyDict == [c \in {} |-> 0]

GeoRecord(lat, lon, count) == [lat |-> lat, lon |-> lon, count |-> count]

DictPut(d, key, value) ==
    [c \in DOMAIN d \cup {key} |-> IF c = key THEN value ELSE d[c]]

(***************************************************************************)
(* What geolocator.geocode(query) can do: return a location, return None,  *)
(* or raise.                                                               *)
(***************************************************************************)
Locations == [latitude : Latitudes, longitude : Longitudes]

Found(loc) ==
    [kind |-> "found", latitude |-> loc.latitude, longitude |-> loc.longitude]

NotFound == [kind |-> "none", latitude |-> 0, longitude |-> 0]

Raised == [kind |-> "raise", latitude |-> 0, longitude |-> 0]

(***************************************************************************)
(* The FrequencyTable: the Counter passed to geocode_cities, a dict from   *)
(* city name to a positive count.                                          *)
(***************************************************************************)
FrequencyTables == UNION {[names -> Counts] : names \in SUBSET CityNames}

VARIABLES
    cache_exists,   \* os.path.exists(cache_file)
    cache_file,     \* the JSON object stored in city_coordinates.json
    pc,             \* position of the running script in geocode_cities
    script,         \* the script that is running
    city_counts,    \* the FrequencyTable passed in
    pending,        \* the cities the for loop has not reached yet
    geocoded,       \* local dict geocoded (the value returned)
    cached_data,    \* local dict cached_data (split-dict scripts only)
    loaded,         \* history: the cache as read at the start of the run
    answers,        \* history: what the geocoder did for each name queried
    calls,          \* history: number of geocoder calls per name in the run
    writes,         \* history: number of writes of the cache file in the run
    prev,           \* history: the previous run, when it is remembered
    sleeps,         \* history: number of time.sleep(1) taken in the run
    last_writer,    \* history: the run that wrote the cache file last
    \* a second run of a script, concurrent with the first
    other_pc,       \* its position in geocode_cities
    other_loaded,   \* history: the cache as it read it
    other_dict,     \* the dict it loaded the cache into and writes back
    \* load_cities_from_csv
    csv_pc,         \* position in load_cities_from_csv
    rows_read,      \* number of rows the csv reader has yielded
    row,            \* the row the reader yielded last
    cities,         \* local list cities
    frequency,      \* the Counter returned
    occurrences,    \* history: the counted fields that are not blank
    \* create_heatmap
    hm_pc,          \* position in create_heatmap
    hm_counts,      \* data['count'] of the records of geocoded_cities
    min_threshold,  \* local min_threshold, as a fraction <<num, den>>
    hm_todo,        \* the records the for loop has not reached yet
    heat_data,      \* number of [lat, lon] points appended per record
    filtered_cities, \* local counter filtered_cities
    \* the density loop of the other four renderers
    rd_pc,          \* position in the renderer
    renderer,       \* the renderer that is running
    rd_counts,      \* data['count'] of the records of geocoded_cities
    rd_todo,        \* the records the for loop has not reached yet
    density,        \* number of points appended per record
    \* main
    main_pc,        \* position in main
    main_script,    \* the script whose main is running
    csv_file,       \* the input CSV: "absent", "empty" (no line) or "rows"
    geojson_file,   \* SP_simplified.geojson: "absent", "falsy" or "data"
    fetch,          \* what requests.get does: "ok", "status" or "raise"
    geojson_data,   \* local geojson_data
    geocoded_cities, \* local geocoded_cities, as the counts of its records
    trace,          \* history: the functions main has called, in order
    boundary_written, \* history: download_sp_geojson wrote the boundary file
    artifact        \* history: the renderer saved its output file

\* the second run
otherRun == <<other_pc, other_loaded, other_dict>>

csvVars == <<csv_pc, rows_read, row, cities, frequency, occurrences>>

heatVars ==
    <<hm_pc, hm_counts, min_threshold, hm_todo, heat_data, filtered_cities>>

renderVars == <<rd_pc, renderer, rd_counts, rd_todo, density>>

mainVars ==
    <<main_pc, main_script, csv_file, geojson_file, fetch, geojson_data,
      geocoded_cities, trace, boundary_written, artifact>>

\* the cache file and the state of geocode_cities
geoVars ==
    <<cache_exists, cache_file, pc, script, city_counts, pending, geocoded,
      cached_data, loaded, answers, calls, writes, prev, sleeps, last_writer>>

\* what geocode_cities of the first run never touches
notGeocode == <<otherRun, csvVars, heatVars, renderVars, mainVars>>

vars ==
    <<cache_exists, cache_file, pc, script, city_counts, pending, geocoded,
      cached_data, loaded, answers, calls, writes, prev, sleeps, last_writer,
      otherRun, csvVars, heatVars, renderVars, mainVars>>

NoRun == <<>>

\* no second run
OtherIdle ==
    /\ other_pc = "idle"
    /\ other_loaded = EmptyDict
    /\ other_dict = EmptyDict

\* load_cities_from_csv is not running
CsvIdle ==
    /\ csv_pc = "idle"
    /\ rows_read = 0
    /\ row = <<>>
    /\ cities = <<>>
    /\ frequency = EmptyDict
    /\ occurrences = <<>>

\* create_heatmap is not running
HeatIdle ==
    /\ hm_pc = "idle"
    /\ hm_counts = <<>>
    /\ min_threshold = <<0, 1>>
    /\ hm_todo = {}
    /\ heat_data = <<>>
    /\ filtered_cities = 0

\* no renderer other than create_heatmap is running
RenderIdle ==
    /\ rd_pc = "idle"
    /\ renderer = "create_static_heatmap"
    /\ rd_counts = <<>>
    /\ rd_todo = {}
    /\ density = <<>>

\* main is not running
MainIdle ==
    /\ main_pc = "idle"
    /\ main_script = "generate_heatmap"
    /\ csv_file = "absent"
    /\ geojson_file = "absent"
    /\ fetch = "ok"
    /\ geojson_data = "None"
    /\ geocoded_cities = <<>>
    /\ trace = <<>>
    /\ boundary_written = FALSE
    /\ artifact = FALSE

Init ==
    /\ cache_exists = FALSE
    /\ cache_file = EmptyDict
    /\ pc = "idle"
    /\ script = "generate_heatmap"
    /\ city_counts = EmptyDict
    /\ pending = {}
    /\ geocoded = EmptyDict
    /\ cached_data = EmptyDict
    /\ loaded = EmptyDict
    /\ answers = EmptyDict
    /\ calls = [c \in CityNames |-> 0]
    /\ writes = 0
    /\ prev = NoRun
    /\ sleeps = 0
    /\ last_writer = "none"
    /\ OtherIdle
    /\ CsvIdle
    /\ HeatIdle
    /\ RenderIdle
    /\ MainIdle

(***************************************************************************)
(* main calls geocode_cities(city_counts); the locals start empty.         *)
(***************************************************************************)
EnterGeocodeCities(s, t) ==
    /\ pc = "idle"
    /\ pc' = "load"
    /\ script' = s
    /\ city_counts' = t
    /\ pending' = DOMAIN t
    /\ geocoded' = EmptyDict
    /\ cached_data' = EmptyDict
    /\ loaded' = EmptyDict
    /\ answers' = EmptyDict
    /\ calls' = [c \in CityNames |-> 0]
    /\ writes' = 0
    /\ sleeps' = 0
    /\ UNCHANGED <<cache_exists, cache_file, prev,
                   last_writer, notGeocode>>

StartRun ==
    \E s \in Scripts, t \in FrequencyTables :
        /\ prev = NoRun
        /\ EnterGeocodeCities(s, t)

(***************************************************************************)
(* if os.path.exists(cache_file): <dict> = json.load(f)                    *)
(***************************************************************************)
LoadCacheSingle ==
    /\ pc = "load"
    /\ script \in SingleDictScripts
    /\ geocoded' = IF cache_exists THEN cache_file ELSE geocoded
    /\ loaded' = geocoded'
    /\ pc' = "loop"
    /\ UNCHANGED <<cache_exists, cache_file, script, city_counts, pending,
                   cached_data, answers, calls, writes, prev,
                   sleeps, last_writer, notGeocode>>

LoadCacheSplit ==
    /\ pc = "load"
    /\ script \in SplitDictScripts
    /\ cached_data' = IF cache_exists THEN cache_file ELSE cached_data
    /\ loaded' = cached_data'
    /\ pc' = "loop"
    /\ UNCHANGED <<cache_exists, cache_file, script, city_counts, pending,
                   geocoded, answers, calls, writes, prev,
                   sleeps, last_writer, notGeocode>>

(***************************************************************************)
(* The for loop over city_counts.items().  The items come in the           *)
(* Counter's insertion order, which is the order of first occurrence in    *)
(* the CSV: any order, so an iteration takes any city not yet visited.     *)
(***************************************************************************)
\* one iteration is over: the loop moves on to the next item
NextItem(city) == pending' = pending \ {city}

\* variant of CacheHitSingle: a cached city is geocoded all the same
CacheHitSingleRequery ==
    \E city \in pending, loc \in Locations :
        /\ pc = "loop"
        /\ script \in SingleDictScripts
        /\ city \in DOMAIN geocoded
        /\ answers' = DictPut(answers, city, Found(loc))
        /\ calls' = [calls EXCEPT ![city] = @ + 1]
        /\ sleeps' = sleeps + 1
        /\ NextItem(city)
        /\ UNCHANGED <<cache_exists, cache_file, pc, script, city_counts,
                       geocoded, cached_data, loaded, writes, prev,
                       last_writer, notGeocode>>

\* if city in geocoded: continue
CacheHitSingle ==
    \E city \in pending :
        /\ pc = "loop"
        /\ script \in SingleDictScripts
        /\ city \in DOMAIN geocoded
        /\ NextItem(city)
        /\ UNCHANGED <<cache_exists, cache_file, pc, script, city_counts,
                       geocoded, cached_data, loaded, answers, calls, writes,
                       prev,
                       sleeps, last_writer, notGeocode>>

\* the record built from a cache entry and the current count
HitRecord(cached, count) == GeoRecord(cached.lat, cached.lon, count)

\* variant of CacheHitSplit: a cached city is geocoded again
CacheHitSplitRequery ==
    \E city \in pending, loc \in Locations :
        /\ pc = "loop"
        /\ script \in SplitDictScripts
        /\ city \in DOMAIN cached_data
        /\ geocoded' =
               DictPut(geocoded, city,
                       GeoRecord(loc.latitude, loc.longitude, city_counts[city]))
        /\ NextItem(city)
        /\ UNCHANGED <<cache_exists, cache_file, pc, script, city_counts,
                       cached_data, loaded, answers, calls, writes, prev,
                       sleeps, last_writer, notGeocode>>

\* if city in cached_data: geocoded[city] = {...}; continue
CacheHitSplit ==
    \E city \in pending :
        /\ pc = "loop"
        /\ script \in SplitDictScripts
        /\ city \in DOMAIN cached_data
        /\ geocoded' =
               DictPut(geocoded, city,
                       HitRecord(cached_data[city], city_counts[city]))
        /\ NextItem(city)
        /\ UNCHANGED <<cache_exists, cache_file, pc, script, city_counts,
                       cached_data, loaded, answers, calls, writes, prev,
                       sleeps, last_writer, notGeocode>>

\* time.sleep(1)
Sleep == sleeps' = sleeps + 1

\* bookkeeping of one call of geolocator.geocode for city
Geocode(city, answer) ==
    /\ answers' = DictPut(answers, city, answer)
    /\ calls' = [calls EXCEPT ![city] = @ + 1]

\* variant of FreshRecord: latitude and longitude exchanged
FreshRecordSwapped(loc, count) == GeoRecord(loc.longitude, loc.latitude, count)

\* the record built from a location the geocoder returned
FreshRecord(loc, count) == GeoRecord(loc.latitude, loc.longitude, count)

\* variant of GeocodeFoundSingle: the cache file is written after every
\* resolution
GeocodeFoundSingleCheckpoint ==
    \E city \in pending, loc \in Locations :
        /\ pc = "loop"
        /\ script \in SingleDictScripts
        /\ city \notin DOMAIN geocoded
        /\ Geocode(city, Found(loc))
        /\ Sleep
        /\ geocoded' =
               DictPut(geocoded, city, FreshRecord(loc, city_counts[city]))
        /\ cache_file' = geocoded'
        /\ cache_exists' = TRUE
        /\ NextItem(city)
        /\ UNCHANGED <<pc, script, city_counts, cached_data, loaded, writes,
                       prev, last_writer, notGeocode>>

\* location is truthy: geocoded[city] = {...}; time.sleep(1)
GeocodeFoundSingle ==
    \E city \in pending, loc \in Locations :
        /\ pc = "loop"
        /\ script \in SingleDictScripts
        /\ city \notin DOMAIN geocoded
        /\ Geocode(city, Found(loc))
        /\ Sleep
        /\ geocoded' =
               DictPut(geocoded, city, FreshRecord(loc, city_counts[city]))
        /\ NextItem(city)
        /\ UNCHANGED <<cache_exists, cache_file, pc, script, city_counts,
                       cached_data, loaded, writes, prev,
                       last_writer, notGeocode>>

\* variant of GeocodeFoundSplit: the new record is not put into cached_data
GeocodeFoundSplitNoCache ==
    \E city \in pending, loc \in Locations :
        /\ pc = "loop"
        /\ script \in SplitDictScripts
        /\ city \notin DOMAIN cached_data
        /\ Geocode(city, Found(loc))
        /\ Sleep
        /\ geocoded' =
               DictPut(geocoded, city, FreshRecord(loc, city_counts[city]))
        /\ NextItem(city)
        /\ UNCHANGED <<cache_exists, cache_file, pc, script, city_counts,
                       cached_data, loaded, writes, prev,
                       last_writer, notGeocode>>

\* variant of GeocodeFoundSplit: the new record is not put into geocoded
GeocodeFoundSplitCacheOnly ==
    \E city \in pending, loc \in Locations :
        /\ pc = "loop"
        /\ script \in SplitDictScripts
        /\ city \notin DOMAIN cached_data
        /\ Geocode(city, Found(loc))
        /\ Sleep
        /\ cached_data' =
               DictPut(cached_data, city, FreshRecord(loc, city_counts[city]))
        /\ NextItem(city)
        /\ UNCHANGED <<cache_exists, cache_file, pc, script, city_counts,
                       geocoded, loaded, writes, prev,
                       last_writer, notGeocode>>

\* location is truthy: geocoded[city] = {...}; cached_data[city] = {...}
GeocodeFoundSplit ==
    \E city \in pending, loc \in Locations :
        /\ pc = "loop"
        /\ script \in SplitDictScripts
        /\ city \notin DOMAIN cached_data
        /\ Geocode(city, Found(loc))
        /\ Sleep
        /\ geocoded' =
               DictPut(geocoded, city, FreshRecord(loc, city_counts[city]))
        /\ cached_data' =
               DictPut(cached_data, city, FreshRecord(loc, city_counts[city]))
        /\ NextItem(city)
        /\ UNCHANGED <<cache_exists, cache_file, pc, script, city_counts,
                       loaded, writes, prev,
                       last_writer, notGeocode>>

\* the dict the loop tests "city in ..." against
Known == IF script \in SingleDictScripts THEN geocoded ELSE cached_data

\* variant of GeocodeNone: a city without a match gets a default position
GeocodeNoneDefault ==
    \E city \in pending :
        /\ pc = "loop"
        /\ city \notin DOMAIN Known
        /\ Geocode(city, NotFound)
        /\ Sleep
        /\ geocoded' =
               DictPut(geocoded, city, GeoRecord(-23, -46, city_counts[city]))
        /\ NextItem(city)
        /\ UNCHANGED <<cache_exists, cache_file, pc, script, city_counts,
                       cached_data, loaded, writes, prev,
                       last_writer, notGeocode>>

\* location is None: only a log line, then time.sleep(1)
GeocodeNone ==
    \E city \in pending :
        /\ pc = "loop"
        /\ city \notin DOMAIN Known
        /\ Geocode(city, NotFound)
        /\ Sleep
        /\ NextItem(city)
        /\ UNCHANGED <<cache_exists, cache_file, pc, script, city_counts,
                       geocoded, cached_data, loaded, writes, prev,
                       last_writer, notGeocode>>

\* variant of GeocodeRaise: break instead of continue
GeocodeRaiseBreak ==
    \E city \in pending :
        /\ pc = "loop"
        /\ city \notin DOMAIN Known
        /\ Geocode(city, Raised)
        /\ pending' = {}
        /\ UNCHANGED <<cache_exists, cache_file, pc, script, city_counts,
                       geocoded, cached_data, loaded, writes, prev,
                       sleeps, last_writer, notGeocode>>

\* geolocator.geocode raises: except Exception: print; continue
GeocodeRaise ==
    \E city \in pending :
        /\ pc = "loop"
        /\ city \notin DOMAIN Known
        /\ Geocode(city, Raised)
        /\ NextItem(city)
        /\ UNCHANGED <<cache_exists, cache_file, pc, script, city_counts,
                       geocoded, cached_data, loaded, writes, prev,
                       sleeps, last_writer, notGeocode>>

(***************************************************************************)
(* After the loop: with open(cache_file, 'w'): json.dump(<dict>, f)        *)
(***************************************************************************)
SaveCacheSingle ==
    /\ pc = "loop"
    /\ pending = {}
    /\ script \in SingleDictScripts
    /\ cache_file' = geocoded
    /\ cache_exists' = TRUE
    /\ writes' = writes + 1
    /\ last_writer' = "main"
    /\ pc' = "done"
    /\ UNCHANGED <<script, city_counts, pending, geocoded, cached_data,
                   loaded, answers, calls, prev,
                   sleeps, notGeocode>>

\* variant of SaveCacheSplit: the file is written only when the run
\* resolved a new city
SaveCacheSplitIfNew ==
    /\ pc = "loop"
    /\ pending = {}
    /\ script \in SplitDictScripts
    /\ IF cached_data # loaded
       THEN /\ cache_file' = cached_data
            /\ cache_exists' = TRUE
            /\ writes' = writes + 1
       ELSE UNCHANGED <<cache_file, cache_exists, writes>>
    /\ last_writer' = "main"
    /\ pc' = "done"
    /\ UNCHANGED <<script, city_counts, pending, geocoded, cached_data,
                   loaded, answers, calls, prev,
                   sleeps, notGeocode>>

\* variant of SaveCacheSplit: the returned dict is written, not cached_data
SaveCacheSplitOutputOnly ==
    /\ pc = "loop"
    /\ pending = {}
    /\ script \in SplitDictScripts
    /\ cache_file' = geocoded
    /\ cache_exists' = TRUE
    /\ writes' = writes + 1
    /\ last_writer' = "main"
    /\ pc' = "done"
    /\ UNCHANGED <<script, city_counts, pending, geocoded, cached_data,
                   loaded, answers, calls, prev,
                   sleeps, notGeocode>>

SaveCacheSplit ==
    /\ pc = "loop"
    /\ pending = {}
    /\ script \in SplitDictScripts
    /\ cache_file' = cached_data
    /\ cache_exists' = TRUE
    /\ writes' = writes + 1
    /\ last_writer' = "main"
    /\ pc' = "done"
    /\ UNCHANGED <<script, city_counts, pending, geocoded, cached_data,
                   loaded, answers, calls, prev,
                   sleeps, notGeocode>>

(***************************************************************************)
(* return geocoded.  pc = "done" is the state at the return statement:     *)
(* geocoded is the merged output and the cache file has been written.      *)
(***************************************************************************)
\* the locals go out of scope
LeaveGeocodeCities ==
    /\ pc = "done"
    /\ pc' = "idle"
    /\ script' = "generate_heatmap"
    /\ city_counts' = EmptyDict
    /\ pending' = {}
    /\ geocoded' = EmptyDict
    /\ cached_data' = EmptyDict
    /\ loaded' = EmptyDict
    /\ answers' = EmptyDict
    /\ calls' = [c \in CityNames |-> 0]
    /\ writes' = 0
    /\ sleeps' = 0
    /\ UNCHANGED <<cache_exists, cache_file,
                   last_writer, notGeocode>>

Return == LeaveGeocodeCities /\ prev' = NoRun

Next ==
    \/ StartRun
    \/ LoadCacheSingle
    \/ LoadCacheSplit
    \/ CacheHitSingle
    \/ CacheHitSplit
    \/ GeocodeFoundSingle
    \/ GeocodeFoundSplit
    \/ GeocodeNone
    \/ GeocodeRaise
    \/ SaveCacheSingle
    \/ SaveCacheSplit
    \/ Return

Spec == Init /\ [][Next]_vars

(***************************************************************************)
(* The same script run twice in a row on the same FrequencyTable: the      *)
(* first of the two runs is remembered, the second is started with its     *)
(* script and its city_counts.                                             *)
(***************************************************************************)
Remember ==
    /\ prev = NoRun
    /\ LeaveGeocodeCities
    /\ prev' = <<[script |-> script, city_counts |-> city_counts,
                  loaded |-> loaded, answers |-> answers,
                  result |-> geocoded, written |-> cache_file]>>

Rerun ==
    /\ prev # NoRun
    /\ EnterGeocodeCities(prev[1].script, prev[1].city_counts)

NextRerun ==
    \/ Next
    \/ Remember
    \/ Rerun

SpecRerun == Init /\ [][NextRerun]_vars

(***************************************************************************)
(* Two scripts on the same input: a run is remembered, the cache file is   *)
(* put back to what that run read (a file that was absent is put back as   *)
(* the empty object, which loads as the same empty dict), and any script   *)
(* is run on the same FrequencyTable.                                      *)
(***************************************************************************)
RestoreCache ==
    /\ pc = "idle"
    /\ prev # NoRun
    /\ cache_file # prev[1].loaded
    /\ cache_file' = prev[1].loaded
    /\ UNCHANGED <<cache_exists, pc, script, city_counts, pending, geocoded,
                   cached_data, loaded, answers, calls, writes, prev, sleeps,
                   last_writer, notGeocode>>

RunOtherScript ==
    \E s \in Scripts :
        /\ prev # NoRun
        /\ cache_file = prev[1].loaded
        /\ EnterGeocodeCities(s, prev[1].city_counts)

\* the geocoder answers a city as it did in the remembered run
AnswersAsBefore ==
    \/ prev = NoRun
    \/ \A c \in DOMAIN answers :
            c \in DOMAIN prev[1].answers /\ answers[c] = prev[1].answers[c]

NextCompare ==
    \/ StartRun
    \/ LoadCacheSingle
    \/ LoadCacheSplit
    \/ CacheHitSingle
    \/ CacheHitSplit
    \/ GeocodeFoundSingle /\ AnswersAsBefore'
    \/ GeocodeFoundSplit /\ AnswersAsBefore'
    \/ GeocodeNone /\ AnswersAsBefore'
    \/ GeocodeRaise /\ AnswersAsBefore'
    \/ SaveCacheSingle
    \/ SaveCacheSplit
    \/ Return
    \/ Remember
    \/ RestoreCache
    \/ RunOtherScript

SpecCompare == Init /\ [][NextCompare]_vars

(***************************************************************************)
(* Two runs at the same time.  The second run is any of the scripts on     *)
(* any FrequencyTable; of its geocode_cities only what reaches the cache   *)
(* file is kept: the dict it loads the cache into, the records it adds     *)
(* for the names it resolves, and the write of that dict.  There is no     *)
(* lock on the file.                                                       *)
(***************************************************************************)
\* if os.path.exists(cache_file): <dict> = json.load(f)
OtherLoad ==
    /\ other_pc = "idle"
    /\ other_dict' = IF cache_exists THEN cache_file ELSE EmptyDict
    /\ other_loaded' = other_dict'
    /\ other_pc' = "loop"
    /\ UNCHANGED <<cache_exists, cache_file, pc, script, city_counts, pending,
                   geocoded, cached_data, loaded, answers, calls, writes,
                   prev, sleeps, last_writer, csvVars, heatVars, renderVars, mainVars>>

\* a city of its table that is not in its dict gets a location; its table
\* counts every city once
OtherResolve ==
    \E city \in CityNames, loc \in Locations :
        /\ other_pc = "loop"
        /\ city \notin DOMAIN other_dict
        /\ other_dict' =
               DictPut(other_dict, city,
                       GeoRecord(loc.latitude, loc.longitude, 1))
        /\ UNCHANGED <<cache_exists, cache_file, pc, script, city_counts,
                       pending, geocoded, cached_data, loaded, answers, calls,
                       writes, prev, sleeps, last_writer, other_pc,
                       other_loaded, csvVars, heatVars, renderVars, mainVars>>

\* variant of OtherSave: the file is read again and merged before the write
OtherSaveMerged ==
    /\ other_pc = "loop"
    /\ cache_file' =
           [c \in DOMAIN cache_file \cup DOMAIN other_dict |->
               IF c \in DOMAIN other_dict THEN other_dict[c] ELSE cache_file[c]]
    /\ cache_exists' = TRUE
    /\ last_writer' = "other"
    /\ other_pc' = "done"
    /\ UNCHANGED <<pc, script, city_counts, pending, geocoded, cached_data,
                   loaded, answers, calls, writes, prev, sleeps,
                   other_loaded, other_dict, csvVars, heatVars, renderVars, mainVars>>

\* with open(cache_file, 'w'): json.dump(<dict>, f)
OtherSave ==
    /\ other_pc = "loop"
    /\ cache_file' = other_dict
    /\ cache_exists' = TRUE
    /\ last_writer' = "other"
    /\ other_pc' = "done"
    /\ UNCHANGED <<pc, script, city_counts, pending, geocoded, cached_data,
                   loaded, answers, calls, writes, prev, sleeps,
                   other_loaded, other_dict, csvVars, heatVars, renderVars, mainVars>>

\* one run of each, interleaved in any way
NextRace ==
    \/ StartRun
    \/ LoadCacheSingle
    \/ LoadCacheSplit
    \/ CacheHitSingle
    \/ CacheHitSplit
    \/ GeocodeFoundSingle
    \/ GeocodeFoundSplit
    \/ GeocodeNone
    \/ GeocodeRaise
    \/ SaveCacheSingle
    \/ SaveCacheSplit
    \/ OtherLoad
    \/ OtherResolve
    \/ OtherSave

SpecRace == Init /\ [][NextRace]_vars

(***************************************************************************)
(* load_cities_from_csv: csv.reader yields the rows of the file one at a   *)
(* time; a row is a list of fields, a field a string (here a sequence of   *)
(* characters).  The rows come from the file, so each step draws the next  *)
(* row from Rows, and the reader may be exhausted at any point.            *)
(***************************************************************************)
\* at most this many rows after the header
MaxRows == 2

\* at most this many fields in a row
MaxFields == 2

\* characters that str.strip() removes
Whitespace == {" "}

\* sample field contents: empty, blank, a name, the name padded on both
\* sides, the name in another case
Fields == {<<>>, <<" ">>, <<"a">>, <<" ", "a", " ">>, <<"A">>}

\* an empty line of the file gives the row []
Rows == UNION {[1..n -> Fields] : n \in 0..MaxFields}

RECURSIVE LStrip(_)
\* drop leading whitespace
LStrip(s) ==
    IF s # <<>> /\ Head(s) \in Whitespace THEN LStrip(Tail(s)) ELSE s

RECURSIVE RStrip(_)
\* drop trailing whitespace
RStrip(s) ==
    IF s # <<>> /\ s[Len(s)] \in Whitespace
    THEN RStrip(SubSeq(s, 1, Len(s) - 1))
    ELSE s

StripLeft(s) == LStrip(s)

\* city.strip()
Strip(s) == RStrip(LStrip(s))

\* row[:-1]
AllButLast(r) == SubSeq(r, 1, Len(r) - 1)

RECURSIVE AppendCitiesKeepBlank(_, _)
AppendCitiesKeepBlank(list, fields) ==
    IF fields = <<>>
    THEN list
    ELSE AppendCitiesKeepBlank(Append(list, Strip(Head(fields))),
                               Tail(fields))

RECURSIVE AppendCities(_, _)
\* for city in fields: city_clean = city.strip();
\*                     if city_clean: cities.append(city_clean)
AppendCities(list, fields) ==
    IF fields = <<>>
    THEN list
    ELSE LET city_clean == Strip(Head(fields))
         IN  AppendCities(IF city_clean # <<>>
                          THEN Append(list, city_clean)
                          ELSE list,
                          Tail(fields))

\* Counter(list): every element of the list with the number of its positions
Counter(list) ==
    [c \in {list[i] : i \in DOMAIN list} |->
        Cardinality({i \in DOMAIN list : list[i] = c})]

\* history: what the fields of row r other than the last add to the counted
\* fields that are not blank, each under its text between the first and the
\* last character that is not whitespace
Text(f) ==
    LET solid == {i \in DOMAIN f : f[i] \notin Whitespace}
    IN  IF solid = {}
        THEN <<>>
        ELSE SubSeq(f, CHOOSE i \in solid : \A j \in solid : i <= j,
                       CHOOSE i \in solid : \A j \in solid : i >= j)

Counted(r) == {i \in DOMAIN r : i < Len(r) /\ Text(r[i]) # <<>>}

Occur(seen, r) ==
    [t \in DOMAIN seen \cup {Text(r[i]) : i \in Counted(r)} |->
        (IF t \in DOMAIN seen THEN seen[t] ELSE 0)
        + Cardinality({i \in Counted(r) : Text(r[i]) = t})]

OpenCsv ==
    /\ csv_pc = "idle"
    /\ csv_pc' = "header"
    /\ cities' = <<>>
    /\ UNCHANGED <<rows_read, row, frequency, occurrences>>
    /\ UNCHANGED <<geoVars, otherRun, heatVars, renderVars, mainVars>>

\* next(reader) on a file with a first line: the row is dropped
SkipHeader ==
    \E r \in Rows :
        /\ csv_pc = "header"
        /\ row' = r
        /\ rows_read' = rows_read + 1
        /\ csv_pc' = "rows"
        /\ UNCHANGED <<cities, frequency, occurrences>>
        /\ UNCHANGED <<geoVars, otherRun, heatVars, renderVars, mainVars>>

\* next(reader) on a file with no line raises StopIteration, which nothing
\* catches
SkipHeaderStopIteration ==
    /\ csv_pc = "header"
    /\ csv_pc' = "error"
    /\ UNCHANGED <<rows_read, row, cities, frequency, occurrences>>
    /\ UNCHANGED <<geoVars, otherRun, heatVars, renderVars, mainVars>>

ForRowAllColumns ==
    \E r \in Rows :
        /\ csv_pc = "rows"
        /\ rows_read <= MaxRows
        /\ row' = r
        /\ rows_read' = rows_read + 1
        /\ cities' = AppendCities(cities, r)
        /\ occurrences' = Occur(occurrences, r)
        /\ UNCHANGED <<csv_pc, frequency>>
        /\ UNCHANGED <<geoVars, otherRun, heatVars, renderVars, mainVars>>

\* one pass of `for row in reader`, the inner loop over row[:-1] included
ForRow ==
    \E r \in Rows :
        /\ csv_pc = "rows"
        /\ rows_read <= MaxRows
        /\ row' = r
        /\ rows_read' = rows_read + 1
        /\ cities' = AppendCities(cities, AllButLast(r))
        /\ occurrences' = Occur(occurrences, r)
        /\ UNCHANGED <<csv_pc, frequency>>
        /\ UNCHANGED <<geoVars, otherRun, heatVars, renderVars, mainVars>>

\* the reader is exhausted: return Counter(cities)
ReturnCounter ==
    /\ csv_pc = "rows"
    /\ frequency' = Counter(cities)
    /\ csv_pc' = "done"
    /\ UNCHANGED <<rows_read, row, cities, occurrences>>
    /\ UNCHANGED <<geoVars, otherRun, heatVars, renderVars, mainVars>>

\* the call is over, by return or by the exception
LeaveLoadCities ==
    /\ csv_pc \in {"done", "error"}
    /\ csv_pc' = "idle"
    /\ rows_read' = 0
    /\ row' = <<>>
    /\ cities' = <<>>
    /\ frequency' = EmptyDict
    /\ occurrences' = <<>>
    /\ UNCHANGED <<geoVars, otherRun, heatVars, renderVars, mainVars>>

NextCsv ==
    \/ OpenCsv
    \/ SkipHeader
    \/ SkipHeaderStopIteration
    \/ ForRow
    \/ ReturnCounter
    \/ LeaveLoadCities

SpecCsv == Init /\ [][NextCsv]_vars

(***************************************************************************)
(* create_heatmap of generate_heatmap.py.  Only data['count'] of a record  *)
(* decides what the function does with it, so geocoded_cities is the list  *)
(* of the counts of its records, in the order of the dict.                 *)
(***************************************************************************)
\* at most this many records in geocoded_cities
MaxRecords == 5

\* sample counts of a record
HeatCounts == {1, 2, 3, 10, 50}

RecordLists == UNION {[1..n -> HeatCounts] : n \in 0..MaxRecords}

RECURSIVE SumList(_)
\* sum(counts)
SumList(list) == IF list = <<>> THEN 0 ELSE Head(list) + SumList(Tail(list))

MinThresholdMeanOnly(list) == <<SumList(list), 5 * Len(list)>>

\* max(3, avg_count * 0.2) with avg_count = sum(counts) / len(counts), as the
\* fraction <<numerator, denominator>>: sum / (5 * len) when above 3
MinThreshold(list) ==
    IF SumList(list) > 3 * 5 * Len(list)
    THEN <<SumList(list), 5 * Len(list)>>
    ELSE <<3, 1>>

\* count >= min_threshold
AtLeast(count, threshold) == count * threshold[2] >= threshold[1]

NumPointsCapped(count) ==
    IF 2 * count > 40 THEN 40 ELSE IF 2 * count > 1 THEN 2 * count ELSE 1

\* max(1, int(count * 2))
NumPoints(count) == IF 2 * count > 1 THEN 2 * count ELSE 1

EnterCreateHeatmap ==
    /\ hm_pc = "idle"
    /\ \E records \in RecordLists : hm_counts' = records
    /\ hm_pc' = "counts"
    /\ UNCHANGED <<min_threshold, hm_todo, heat_data, filtered_cities>>
    /\ UNCHANGED <<geoVars, otherRun, csvVars, renderVars, mainVars>>

\* `if counts:` taken; the three prints; heat_data = [], filtered_cities = 0
Threshold ==
    /\ hm_pc = "counts"
    /\ hm_counts # <<>>
    /\ min_threshold' = MinThreshold(hm_counts)
    /\ heat_data' = <<>>
    /\ filtered_cities' = 0
    /\ hm_todo' = DOMAIN hm_counts
    /\ hm_pc' = "loop"
    /\ UNCHANGED hm_counts
    /\ UNCHANGED <<geoVars, otherRun, csvVars, renderVars, mainVars>>

\* the else branch sets min_threshold = 3 and leaves avg_count unbound, and
\* the second print reads avg_count
ThresholdNameError ==
    /\ hm_pc = "counts"
    /\ hm_counts = <<>>
    /\ min_threshold' = <<3, 1>>
    /\ hm_pc' = "NameError"
    /\ UNCHANGED <<hm_counts, hm_todo, heat_data, filtered_cities>>
    /\ UNCHANGED <<geoVars, otherRun, csvVars, renderVars, mainVars>>

ForRecordStrict ==
    /\ hm_pc = "loop"
    /\ hm_todo # {}
    /\ LET i == CHOOSE k \in hm_todo : \A j \in hm_todo : k <= j
           count == hm_counts[i]
       IN  /\ hm_todo' = hm_todo \ {i}
           /\ IF count * min_threshold[2] > min_threshold[1]
              THEN /\ heat_data' = DictPut(heat_data, i, NumPoints(count))
                   /\ UNCHANGED filtered_cities
              ELSE /\ filtered_cities' = filtered_cities + 1
                   /\ UNCHANGED heat_data
    /\ UNCHANGED <<hm_pc, hm_counts, min_threshold>>
    /\ UNCHANGED <<geoVars, otherRun, csvVars, renderVars, mainVars>>

\* one pass of `for city, data in geocoded_cities.items()`: the record's
\* points are appended to heat_data, or filtered_cities is incremented
ForRecord ==
    /\ hm_pc = "loop"
    /\ hm_todo # {}
    /\ LET i == CHOOSE k \in hm_todo : \A j \in hm_todo : k <= j
           count == hm_counts[i]
       IN  /\ hm_todo' = hm_todo \ {i}
           /\ IF AtLeast(count, min_threshold)
              THEN /\ heat_data' = DictPut(heat_data, i, NumPoints(count))
                   /\ UNCHANGED filtered_cities
              ELSE /\ filtered_cities' = filtered_cities + 1
                   /\ UNCHANGED heat_data
    /\ UNCHANGED <<hm_pc, hm_counts, min_threshold>>
    /\ UNCHANGED <<geoVars, otherRun, csvVars, renderVars, mainVars>>

\* the legend: min([c for c in counts if c >= min_threshold])
Legend ==
    /\ hm_pc = "loop"
    /\ hm_todo = {}
    /\ \E i \in DOMAIN hm_counts : AtLeast(hm_counts[i], min_threshold)
    /\ hm_pc' = "save"
    /\ UNCHANGED <<hm_counts, min_threshold, hm_todo, heat_data,
                   filtered_cities>>
    /\ UNCHANGED <<geoVars, otherRun, csvVars, renderVars, mainVars>>

\* min() of an empty list raises ValueError
LegendValueError ==
    /\ hm_pc = "loop"
    /\ hm_todo = {}
    /\ \A i \in DOMAIN hm_counts : ~AtLeast(hm_counts[i], min_threshold)
    /\ hm_pc' = "ValueError"
    /\ UNCHANGED <<hm_counts, min_threshold, hm_todo, heat_data,
                   filtered_cities>>
    /\ UNCHANGED <<geoVars, otherRun, csvVars, renderVars, mainVars>>

\* sp_map.save(output_file)
SaveMap ==
    /\ hm_pc = "save"
    /\ hm_pc' = "done"
    /\ UNCHANGED <<hm_counts, min_threshold, hm_todo, heat_data,
                   filtered_cities>>
    /\ UNCHANGED <<geoVars, otherRun, csvVars, renderVars, mainVars>>

\* the call is over, by return or by an exception
LeaveCreateHeatmap ==
    /\ hm_pc \in {"done", "NameError", "ValueError"}
    /\ hm_pc' = "idle"
    /\ hm_counts' = <<>>
    /\ min_threshold' = <<0, 1>>
    /\ hm_todo' = {}
    /\ heat_data' = <<>>
    /\ filtered_cities' = 0
    /\ UNCHANGED <<geoVars, otherRun, csvVars, renderVars, mainVars>>

NextHeatmap ==
    \/ EnterCreateHeatmap
    \/ Threshold
    \/ ThresholdNameError
    \/ ForRecord
    \/ Legend
    \/ LegendValueError
    \/ SaveMap
    \/ LeaveCreateHeatmap

SpecHeatmap == Init /\ [][NextHeatmap]_vars

(***************************************************************************)
(* The density loops of create_static_heatmap, create_heatmap_svg,         *)
(* create_heatmap_image and create_heatmap_with_geojson: every record of   *)
(* geocoded_cities is expanded into a number of points, with no threshold. *)
(***************************************************************************)
Renderers ==
    {"create_static_heatmap", "create_heatmap_svg", "create_heatmap_image",
     "create_heatmap_with_geojson"}

\* the number of points a renderer appends for a record of the given count:
\*   create_static_heatmap        max(1, int(count * 2.5))
\*   create_heatmap_svg           min(count, 40)
\*   create_heatmap_image and
\*   create_heatmap_with_geojson  min(int(row['Frequência']), 30)
PointsOf(r, count) ==
    CASE r = "create_static_heatmap" ->
            IF (5 * count) \div 2 > 1 THEN (5 * count) \div 2 ELSE 1
      [] r = "create_heatmap_svg" ->
            IF count < 40 THEN count ELSE 40
      [] OTHER ->
            IF count < 30 THEN count ELSE 30

\* main calls the renderer; heat_data = [] (expanded_data = [])
EnterRenderer ==
    /\ rd_pc = "idle"
    /\ hm_pc = "idle"
    /\ \E r \in Renderers : renderer' = r
    /\ \E records \in RecordLists : rd_counts' = records
    /\ rd_todo' = DOMAIN rd_counts'
    /\ density' = <<>>
    /\ rd_pc' = "loop"
    /\ UNCHANGED <<geoVars, otherRun, csvVars, heatVars, mainVars>>

\* one pass of the loop over the records
ExpandRecord ==
    /\ rd_pc = "loop"
    /\ rd_todo # {}
    /\ LET i == CHOOSE k \in rd_todo : \A j \in rd_todo : k <= j
       IN  /\ rd_todo' = rd_todo \ {i}
           /\ density' = DictPut(density, i, PointsOf(renderer, rd_counts[i]))
    /\ UNCHANGED <<rd_pc, renderer, rd_counts>>
    /\ UNCHANGED <<geoVars, otherRun, csvVars, heatVars, mainVars>>

\* the loop is over: the points go to the density layer
DensityLayer ==
    /\ rd_pc = "loop"
    /\ rd_todo = {}
    /\ rd_pc' = "done"
    /\ UNCHANGED <<renderer, rd_counts, rd_todo, density>>
    /\ UNCHANGED <<geoVars, otherRun, csvVars, heatVars, mainVars>>

LeaveRenderer ==
    /\ rd_pc = "done"
    /\ rd_pc' = "idle"
    /\ renderer' = "create_static_heatmap"
    /\ rd_counts' = <<>>
    /\ rd_todo' = {}
    /\ density' = <<>>
    /\ UNCHANGED <<geoVars, otherRun, csvVars, heatVars, mainVars>>

\* one renderer at a time: create_heatmap or one of the other four
NextRender ==
    \/ rd_pc = "idle" /\ EnterCreateHeatmap
    \/ Threshold
    \/ ThresholdNameError
    \/ ForRecord
    \/ Legend
    \/ LegendValueError
    \/ SaveMap
    \/ LeaveCreateHeatmap
    \/ EnterRenderer
    \/ ExpandRecord
    \/ DensityLayer
    \/ LeaveRenderer

SpecRender == Init /\ [][NextRender]_vars

(***************************************************************************)
(* main of the five scripts.  The functions it calls are single steps     *)
(* here: what matters is which of them main reaches, in which order, and   *)
(* what it does with their results.                                        *)
(***************************************************************************)
\* the scripts that need SP_simplified.geojson
BoundaryScripts ==
    {"generate_static_heatmap", "generate_heatmap_svg",
     "generate_heatmap_geojson"}

\* the scripts that download it when it is missing
DownloadScripts == {"generate_heatmap_svg", "generate_heatmap_geojson"}

\* the scripts that test `if not geocoded_cities`
GuardedScripts == Scripts \ {"generate_heatmap"}

RendererOf(s) ==
    CASE s = "generate_heatmap" -> "create_heatmap"
      [] s = "generate_heatmap_svg" -> "create_heatmap_svg"
      [] s = "generate_heatmap_image" -> "create_heatmap_image"
      [] s = "generate_static_heatmap" -> "create_static_heatmap"
      [] OTHER -> "create_heatmap_with_geojson"

\* what geocode_cities may return: the counts of up to MaxCities records
GeocodedLists == UNION {[1..n -> HeatCounts] : n \in 0..MaxCities}

Called(f) == \E k \in DOMAIN trace : trace[k] = f

StartMain ==
    /\ main_pc = "idle"
    /\ \E s \in Scripts : main_script' = s
    /\ \E c \in {"absent", "empty", "rows"} : csv_file' = c
    /\ \E g \in {"absent", "falsy", "data"} : geojson_file' = g
    /\ \E f \in {"ok", "status", "raise"} : fetch' = f
    /\ main_pc' = "csv_check"
    /\ UNCHANGED <<geojson_data, geocoded_cities, trace, boundary_written,
                   artifact>>
    /\ UNCHANGED <<geoVars, otherRun, csvVars, heatVars, renderVars>>

\* if not os.path.exists(csv_file): fails, main goes on
CsvPresent ==
    /\ main_pc = "csv_check"
    /\ csv_file # "absent"
    /\ main_pc' = IF main_script \in BoundaryScripts
                  THEN "load_geojson"
                  ELSE "load_csv"
    /\ UNCHANGED <<main_script, csv_file, geojson_file, fetch, geojson_data,
                   geocoded_cities, trace, boundary_written, artifact>>
    /\ UNCHANGED <<geoVars, otherRun, csvVars, heatVars, renderVars>>

CsvMissingIgnored ==
    /\ main_pc = "csv_check"
    /\ csv_file = "absent"
    /\ main_pc' = IF main_script \in BoundaryScripts
                  THEN "load_geojson"
                  ELSE "load_csv"
    /\ UNCHANGED <<main_script, csv_file, geojson_file, fetch, geojson_data,
                   geocoded_cities, trace, boundary_written, artifact>>
    /\ UNCHANGED <<geoVars, otherRun, csvVars, heatVars, renderVars>>

\* if not os.path.exists(csv_file): print the error and return
CsvMissing ==
    /\ main_pc = "csv_check"
    /\ csv_file = "absent"
    /\ main_pc' = "returned"
    /\ UNCHANGED <<main_script, csv_file, geojson_file, fetch, geojson_data,
                   geocoded_cities, trace, boundary_written, artifact>>
    /\ UNCHANGED <<geoVars, otherRun, csvVars, heatVars, renderVars>>

\* geojson_data = load_geojson(geojson_file): None when the file is absent,
\* else what the file holds; then `if not geojson_data`
LoadGeojson ==
    /\ main_pc = "load_geojson"
    /\ trace' = Append(trace, "load_geojson")
    /\ geojson_data' = IF geojson_file = "absent" THEN "None" ELSE geojson_file
    /\ main_pc' = IF geojson_data' = "data" THEN "load_csv" ELSE "no_boundary"
    /\ UNCHANGED <<main_script, csv_file, geojson_file, fetch,
                   geocoded_cities, boundary_written, artifact>>
    /\ UNCHANGED <<geoVars, otherRun, csvVars, heatVars, renderVars>>

BoundaryMissingContinue ==
    /\ main_pc = "no_boundary"
    /\ main_script = "generate_static_heatmap"
    /\ main_pc' = "load_csv"
    /\ UNCHANGED <<main_script, csv_file, geojson_file, fetch, geojson_data,
                   geocoded_cities, trace, boundary_written, artifact>>
    /\ UNCHANGED <<geoVars, otherRun, csvVars, heatVars, renderVars>>

\* generate_static_heatmap.py: print the error and return
BoundaryMissing ==
    /\ main_pc = "no_boundary"
    /\ main_script = "generate_static_heatmap"
    /\ main_pc' = "returned"
    /\ UNCHANGED <<main_script, csv_file, geojson_file, fetch, geojson_data,
                   geocoded_cities, trace, boundary_written, artifact>>
    /\ UNCHANGED <<geoVars, otherRun, csvVars, heatVars, renderVars>>

\* download_sp_geojson, status 200: the answer is written to the boundary
\* file and returned
DownloadOk ==
    /\ main_pc = "no_boundary"
    /\ main_script \in DownloadScripts
    /\ fetch = "ok"
    /\ trace' = Append(trace, "download_sp_geojson")
    /\ geojson_file' = "data"
    /\ boundary_written' = TRUE
    /\ geojson_data' = "data"
    /\ main_pc' = "load_csv"
    /\ UNCHANGED <<main_script, csv_file, fetch, geocoded_cities, artifact>>
    /\ UNCHANGED <<geoVars, otherRun, csvVars, heatVars, renderVars>>

\* download_sp_geojson of generate_heatmap_svg.py, another status or an
\* exception: it returns None, and main prints the error and returns
DownloadFailed ==
    /\ main_pc = "no_boundary"
    /\ main_script = "generate_heatmap_svg"
    /\ fetch # "ok"
    /\ trace' = Append(trace, "download_sp_geojson")
    /\ geojson_data' = "None"
    /\ main_pc' = "returned"
    /\ UNCHANGED <<main_script, csv_file, geojson_file, fetch,
                   geocoded_cities, boundary_written, artifact>>
    /\ UNCHANGED <<geoVars, otherRun, csvVars, heatVars, renderVars>>

\* download_sp_geojson of generate_heatmap_geojson.py, another status or an
\* exception: the hardcoded polygon is written to the boundary file and
\* returned
DownloadFallback ==
    /\ main_pc = "no_boundary"
    /\ main_script = "generate_heatmap_geojson"
    /\ fetch # "ok"
    /\ trace' = Append(trace, "download_sp_geojson")
    /\ geojson_file' = "data"
    /\ boundary_written' = TRUE
    /\ geojson_data' = "fallback"
    /\ main_pc' = "load_csv"
    /\ UNCHANGED <<main_script, csv_file, fetch, geocoded_cities, artifact>>
    /\ UNCHANGED <<geoVars, otherRun, csvVars, heatVars, renderVars>>

\* city_counts = load_cities_from_csv(csv_file)
LoadCsv ==
    /\ main_pc = "load_csv"
    /\ csv_file = "rows"
    /\ trace' = Append(trace, "load_cities_from_csv")
    /\ main_pc' = "geocode"
    /\ UNCHANGED <<main_script, csv_file, geojson_file, fetch, geojson_data,
                   geocoded_cities, boundary_written, artifact>>
    /\ UNCHANGED <<geoVars, otherRun, csvVars, heatVars, renderVars>>

\* load_cities_from_csv on a file with no line: StopIteration goes through
\* main
LoadCsvStopIteration ==
    /\ main_pc = "load_csv"
    /\ csv_file = "empty"
    /\ trace' = Append(trace, "load_cities_from_csv")
    /\ main_pc' = "StopIteration"
    /\ UNCHANGED <<main_script, csv_file, geojson_file, fetch, geojson_data,
                   geocoded_cities, boundary_written, artifact>>
    /\ UNCHANGED <<geoVars, otherRun, csvVars, heatVars, renderVars>>

\* geocoded_cities = geocode_cities(city_counts)
GeocodeCities ==
    /\ main_pc = "geocode"
    /\ trace' = Append(trace, "geocode_cities")
    /\ \E g \in GeocodedLists : geocoded_cities' = g
    /\ main_pc' = "geocoded"
    /\ UNCHANGED <<main_script, csv_file, geojson_file, fetch, geojson_data,
                   boundary_written, artifact>>
    /\ UNCHANGED <<geoVars, otherRun, csvVars, heatVars, renderVars>>

\* if not geocoded_cities: print the error and return
NothingGeocoded ==
    /\ main_pc = "geocoded"
    /\ main_script \in GuardedScripts
    /\ geocoded_cities = <<>>
    /\ main_pc' = "returned"
    /\ UNCHANGED <<main_script, csv_file, geojson_file, fetch, geojson_data,
                   geocoded_cities, trace, boundary_written, artifact>>
    /\ UNCHANGED <<geoVars, otherRun, csvVars, heatVars, renderVars>>

\* the renderer is called.  create_heatmap raises NameError on an empty
\* mapping and ValueError when no count reaches the threshold; otherwise
\* the output file is saved
Render ==
    /\ main_pc = "geocoded"
    /\ main_script \in GuardedScripts => geocoded_cities # <<>>
    /\ trace' = Append(trace, RendererOf(main_script))
    /\ main_pc' =
        IF main_script # "generate_heatmap"
        THEN "returned"
        ELSE IF geocoded_cities = <<>>
        THEN "NameError"
        ELSE IF \A i \in DOMAIN geocoded_cities :
                    ~AtLeast(geocoded_cities[i], MinThreshold(geocoded_cities))
        THEN "ValueError"
        ELSE "returned"
    /\ artifact' = (main_pc' = "returned")
    /\ UNCHANGED <<main_script, csv_file, geojson_file, fetch, geojson_data,
                   geocoded_cities, boundary_written>>
    /\ UNCHANGED <<geoVars, otherRun, csvVars, heatVars, renderVars>>

\* the process ends, by return or by an exception
LeaveMain ==
    /\ main_pc \in {"returned", "NameError", "ValueError", "StopIteration"}
    /\ main_pc' = "idle"
    /\ main_script' = "generate_heatmap"
    /\ csv_file' = "absent"
    /\ geojson_file' = "absent"
    /\ fetch' = "ok"
    /\ geojson_data' = "None"
    /\ geocoded_cities' = <<>>
    /\ trace' = <<>>
    /\ boundary_written' = FALSE
    /\ artifact' = FALSE
    /\ UNCHANGED <<geoVars, otherRun, csvVars, heatVars, renderVars>>

NextMain ==
    \/ StartMain
    \/ CsvPresent
    \/ CsvMissing
    \/ LoadGeojson
    \/ BoundaryMissing
    \/ DownloadOk
    \/ DownloadFailed
    \/ DownloadFallback
    \/ LoadCsv
    \/ LoadCsvStopIteration
    \/ GeocodeCities
    \/ NothingGeocoded
    \/ Render
    \/ LeaveMain

SpecMain == Init /\ [][NextMain]_vars

(***************************************************************************)
(* Properties of geocode_cities.                                           *)
(***************************************************************************)
\* the function is at its return statement
Done == pc = "done"

\* the names of the run that were already in the cache read at its start
CacheHits == DOMAIN city_counts \cap DOMAIN loaded

\* the names of the run the geocoder returned a location for
Resolved == {c \in DOMAIN answers : answers[c].kind = "found"}

\* C1: in every script, a name of the FrequencyTable that was in the loaded
\* cache is returned with count equal to the current run's frequency, not
\* the count stored in the cache.
CacheHitCountIsCurrent ==
    Done =>
        \A c \in CacheHits :
            c \in DOMAIN geocoded /\ geocoded[c].count = city_counts[c]

\* C2: a name that was in the cache before the run has, in the merged
\* output, the cached latitude and longitude, whatever the geocoder answers.
CacheReuse ==
    \A c \in DOMAIN loaded \cap DOMAIN geocoded :
        /\ geocoded[c].lat = loaded[c].lat
        /\ geocoded[c].lon = loaded[c].lon

\* a cached name of the table is returned while the geocoder has answered
\* another name of the run with a different latitude
CacheReuseWitness ==
    /\ Done
    /\ \E c \in CacheHits, d \in Resolved :
           /\ c \in DOMAIN geocoded
           /\ answers[d].latitude # loaded[c].lat

\* C3: after a run, the count persisted in the cache for a name of the
\* run's FrequencyTable equals that run's frequency for the name.
CacheCountIsLastSeen ==
    Done =>
        \A c \in DOMAIN city_counts \cap DOMAIN cache_file :
            cache_file[c].count = city_counts[c]

\* C4: after a run, every name of the FrequencyTable with a successful
\* geocode result (cache hit or fresh resolution) is a key of the merged
\* output and a key of the cache written back (a dict holds a key once).
MergeComplete ==
    Done =>
        \A c \in CacheHits \cup Resolved :
            c \in DOMAIN geocoded /\ c \in DOMAIN cache_file

MergeCompleteWitness ==
    Done /\ CacheHits # {} /\ Resolved # {}

\* C5: a name absent from the loaded cache for which the geocoder returns
\* no match is a key of neither the merged output nor the cache written.
NotFoundSkipped ==
    \A c \in DOMAIN answers :
        answers[c].kind = "none" =>
            /\ c \notin DOMAIN geocoded
            /\ c \notin DOMAIN cached_data
            /\ c \notin DOMAIN cache_file

NotFoundSkippedWitness ==
    /\ Done
    /\ cache_file # EmptyDict
    /\ \E c \in DOMAIN answers : answers[c].kind = "none"

\* C6: a name whose geocoder call raises gets no entry in the merged output
\* or the cache and is called once; the batch is not aborted: at the return
\* every name of the table has been processed and the cache is written.
RaiseIsolated ==
    /\ \A c \in DOMAIN answers :
           answers[c].kind = "raise" =>
               /\ c \notin DOMAIN geocoded
               /\ c \notin DOMAIN cached_data
               /\ c \notin DOMAIN cache_file
               /\ calls[c] = 1
    /\ Done =>
           /\ pending = {}
           /\ writes = 1
           /\ \A c \in DOMAIN city_counts :
                  c \in DOMAIN loaded \/ c \in DOMAIN answers

\* one name raised and another name of the same run was resolved
RaiseIsolatedWitness ==
    /\ Done
    /\ Resolved # {}
    /\ \E c \in DOMAIN answers : answers[c].kind = "raise"

\* C7: the run writes the cache file exactly once, after the loop and
\* unconditionally; what it writes holds every entry loaded at the start
\* and every entry resolved in the run.
CacheWrittenOnce ==
    /\ pc \in {"load", "loop"} => writes = 0
    /\ Done =>
           /\ writes = 1
           /\ cache_exists
           /\ \A c \in DOMAIN loaded :
                  c \in DOMAIN cache_file /\ cache_file[c] = loaded[c]
           /\ \A c \in Resolved :
                  /\ c \in DOMAIN cache_file
                  /\ cache_file[c].lat = answers[c].latitude
                  /\ cache_file[c].lon = answers[c].longitude

\* a run that resolved nothing new has written the cache it had loaded
CacheWrittenOnceWitness ==
    /\ Done
    /\ writes = 1
    /\ Resolved = {}
    /\ city_counts # EmptyDict
    /\ DOMAIN loaded \ DOMAIN city_counts # {}

\* C8: over any sequence of runs of any of the scripts, the key set of the
\* cache file never shrinks and the latitude/longitude stored for a name
\* never change.
CacheNeverShrinks ==
    [][/\ cache_exists => cache_exists'
       /\ \A c \in DOMAIN cache_file :
              /\ c \in DOMAIN cache_file'
              /\ cache_file'[c].lat = cache_file[c].lat
              /\ cache_file'[c].lon = cache_file[c].lon]_vars

\* a populated cache has been rewritten by a run with a new name in it and
\* with a cached name that is not in the run's table
CacheNeverShrinksWitness ==
    /\ Done
    /\ DOMAIN cache_file \ DOMAIN loaded # {}
    /\ DOMAIN loaded \ DOMAIN city_counts # {}

\* C9: a second run of the same script on the same FrequencyTable, the
\* geocoder answering each name as in the first run, returns the merged
\* output of the first run and leaves the cache file as the first wrote it.
SameAnswers ==
    \A c \in DOMAIN answers :
        c \in DOMAIN prev[1].answers /\ answers[c] = prev[1].answers[c]

Idempotent ==
    (Done /\ prev # NoRun /\ SameAnswers) =>
        /\ geocoded = prev[1].result
        /\ cache_file = prev[1].written

\* the second run is over; the first started on a populated cache, had a
\* cache hit with a count other than the cached one and resolved a new name
IdempotentWitness ==
    /\ Done
    /\ prev # NoRun
    /\ SameAnswers
    /\ \E c \in DOMAIN prev[1].loaded \cap DOMAIN city_counts :
           prev[1].loaded[c].count # city_counts[c]
    /\ \E c \in DOMAIN prev[1].answers : prev[1].answers[c].kind = "found"

\* C10: a name absent from the loaded cache for which the geocoder returns
\* a coordinate gets a record with that latitude/longitude and the current
\* frequency as count in the merged output, and the same record in the
\* cache that is written back.
FreshResolution ==
    \A c \in Resolved :
        LET rec == [lat |-> answers[c].latitude,
                    lon |-> answers[c].longitude,
                    count |-> city_counts[c]]
        IN  /\ c \notin DOMAIN loaded
            /\ c \in DOMAIN geocoded /\ geocoded[c] = rec
            /\ script \in SplitDictScripts =>
                   c \in DOMAIN cached_data /\ cached_data[c] = rec
            /\ Done => c \in DOMAIN cache_file /\ cache_file[c] = rec

FreshResolutionWitness ==
    Done /\ Resolved # {} /\ loaded # EmptyDict

\* C11: within a run the geocoder is never called for a name of the loaded
\* cache and is called exactly once for each name of the FrequencyTable
\* that is not in the loaded cache.
GeocoderCalls ==
    /\ \A c \in DOMAIN loaded : calls[c] = 0
    /\ \A c \in CityNames \ DOMAIN city_counts : calls[c] = 0
    /\ \A c \in CityNames : calls[c] <= 1
    /\ Done => \A c \in DOMAIN city_counts \ DOMAIN loaded : calls[c] = 1

\* the run had a cache hit and a name to look up
GeocoderCallsWitness ==
    /\ Done
    /\ CacheHits # {}
    /\ \E c \in DOMAIN city_counts : calls[c] = 1

\* number of geocoder calls of the run, over the names in S
RECURSIVE CallsIn(_)
CallsIn(S) ==
    IF S = {} THEN 0
    ELSE LET c == CHOOSE c \in S : TRUE
         IN  calls[c] + CallsIn(S \ {c})

\* C12: every geocoder lookup of a run is paired with the 1-second delay,
\* whatever its outcome (match, no match or exception).
EveryLookupDelayed == sleeps = CallsIn(CityNames)

\* C13: the cache file is not modified while names are being processed: it
\* holds what the run read at its start and no coordinate resolved in the
\* run.
CacheUntouchedMidRun ==
    pc = "loop" =>
        /\ cache_file = loaded
        /\ Resolved \cap DOMAIN cache_file = {}

\* mid-run, on a populated cache, with a name already resolved
CacheUntouchedMidRunWitness ==
    /\ pc = "loop"
    /\ pending # {}
    /\ loaded # EmptyDict
    /\ Resolved # {}

\* C14: two runs race on the cache file.  When both have written, the file
\* is the dict of the run that wrote last, so an entry the other run
\* resolved and wrote is in the file only if the last writer had it too.
LostUpdate ==
    (Done /\ other_pc = "done") =>
        /\ last_writer = "other" =>
               /\ cache_file = other_dict
               /\ \A c \in Resolved \ DOMAIN other_dict :
                      c \notin DOMAIN cache_file
        /\ last_writer = "main" =>
               /\ cache_file = Known
               /\ \A c \in DOMAIN other_dict \ DOMAIN Known :
                      c \notin DOMAIN cache_file

\* the first run resolved a name and wrote it, the second run wrote last,
\* and the name is not in the file
LostUpdateWitness ==
    /\ Done
    /\ other_pc = "done"
    /\ last_writer = "other"
    /\ \E c \in Resolved : c \notin DOMAIN cache_file

\* C15: given the same FrequencyTable, the same initial cache and the same
\* geocoder answers, geocode_cities returns the same merged output in all
\* five scripts.
SameOutputInAllScripts ==
    (/\ Done
     /\ prev # NoRun
     /\ loaded = prev[1].loaded
     /\ city_counts = prev[1].city_counts
     /\ answers = prev[1].answers) =>
        geocoded = prev[1].result

\* C25: the merged output returned by geocode_cities holds only names of the
\* FrequencyTable of the run: a name that is in the cache and not in the
\* table is not a key of it.
OutputOnlyCurrentNames == Done => DOMAIN geocoded \subseteq DOMAIN city_counts

\* C26: given the same FrequencyTable, the same initial cache file and the
\* same geocoder answers, the cache file written at the end of the run is the
\* same whichever script's geocode_cities made the run.
SameCacheFileInAllScripts ==
    (/\ Done
     /\ prev # NoRun
     /\ loaded = prev[1].loaded
     /\ city_counts = prev[1].city_counts
     /\ answers = prev[1].answers) =>
        cache_file = prev[1].written

\* a single-dict and a split-dict script have made the same run, with a city
\* found in the cache under another count and a city newly resolved
SameCacheFileInAllScriptsWitness ==
    /\ Done
    /\ prev # NoRun
    /\ (script \in SingleDictScripts) # (prev[1].script \in SingleDictScripts)
    /\ loaded = prev[1].loaded
    /\ city_counts = prev[1].city_counts
    /\ answers = prev[1].answers
    /\ \E c \in CacheHits : loaded[c].count # city_counts[c]
    /\ Resolved # {}
    /\ cache_file = prev[1].written

(***************************************************************************)
(* Properties of load_cities_from_csv.                                     *)
(***************************************************************************)
\* load_cities_from_csv is at its return statement
Returned == csv_pc = "done"

RECURSIVE SumValues(_)
\* the sum of the values of a table
SumValues(d) ==
    IF DOMAIN d = {}
    THEN 0
    ELSE LET k == CHOOSE key \in DOMAIN d : TRUE
         IN  d[k] + SumValues([key \in DOMAIN d \ {k} |-> d[key]])

\* C16: the sum of the values of the returned FrequencyTable is the number of
\* fields that are not empty after trimming, over all rows after the header
\* and without the last field of each row.
TableTotal == Returned => SumValues(frequency) = SumValues(occurrences)

\* two rows were read after the header, one with a counted name and one with
\* a counted blank field
TableTotalWitness ==
    /\ Returned
    /\ rows_read = 3
    /\ row = <<<<" ">>, <<"A">>>>
    /\ SumValues(frequency) = 1

\* C17: the keys of the returned FrequencyTable are the distinct trimmed
\* non-empty strings of the counted fields, each with its number of
\* occurrences, at least 1: fields that differ only in surrounding whitespace
\* share a key, fields that differ in a character do not.
KeysAreTrimmedNames ==
    Returned =>
        /\ DOMAIN frequency = DOMAIN occurrences
        /\ \A k \in DOMAIN frequency :
            /\ k # <<>>
            /\ Text(k) = k
            /\ frequency[k] = occurrences[k]
            /\ frequency[k] >= 1

\* the padded name is read after the same name, and both are under one key
KeysAreTrimmedNamesWitness ==
    /\ Returned
    /\ Len(row) = 2
    /\ row[1] = <<" ", "a", " ">>
    /\ DOMAIN frequency = {<<"a">>}
    /\ frequency[<<"a">>] = 2

\* C18: the header row adds nothing to the counted names, and a row after it
\* adds one name per field other than its last that is not blank: nothing
\* for the last field, for a row of one field or for a row of blank fields.
UncountedPositions ==
    [][/\ csv_pc = "header" => cities' = cities
       /\ (csv_pc = "rows" /\ rows_read' = rows_read + 1) =>
            /\ Len(cities') = Len(cities) + Cardinality(Counted(row'))
            /\ (Len(row') <= 1 => cities' = cities)
            /\ ((\A i \in DOMAIN row' : Text(row'[i]) = <<>>) =>
                    cities' = cities)]_vars

\* the last field of the second row holds a name the first row had counted,
\* and the second row added nothing
UncountedPositionsWitness ==
    /\ csv_pc = "rows"
    /\ rows_read = 3
    /\ row = <<<<>>, <<"a">>>>
    /\ cities = <<<<"a">>>>

\* C19: load_cities_from_csv returns a FrequencyTable whatever the rows are,
\* for a file of no rows too: it never ends in an exception.
NoErrorOutcome == csv_pc # "error"

(***************************************************************************)
(* Properties of create_heatmap.                                           *)
(***************************************************************************)
\* the records the loop of create_heatmap has gone through
Visited ==
    IF hm_pc \in {"loop", "save", "done", "ValueError"}
    THEN DOMAIN hm_counts \ hm_todo
    ELSE {}

\* count >= max(3, 0.2 * mean of all counts), the mean being Total / Number
Passes(count) ==
    /\ count >= 3
    /\ 5 * Len(hm_counts) * count >= SumList(hm_counts)

\* C20: a record is part of the density input iff its count is at least
\* max(3, 0.2 * mean of the counts of all records); for the counts
\* [1, 2, 3, 10, 50] the threshold is 3, the records of count 1 and 2 are
\* left out and the other three are in.
ThresholdFilter ==
    /\ \A i \in Visited : (i \in DOMAIN heat_data) <=> Passes(hm_counts[i])
    /\ filtered_cities = Cardinality(Visited \ DOMAIN heat_data)
    /\ (Visited # {} /\ hm_counts = <<1, 2, 3, 10, 50>>) =>
            /\ min_threshold[1] = 3 * min_threshold[2]
            /\ DOMAIN heat_data = {i \in Visited : i >= 3}

\* the loop is over for the counts [1, 2, 3, 10, 50]
ThresholdFilterWitness ==
    /\ hm_pc = "save"
    /\ hm_counts = <<1, 2, 3, 10, 50>>
    /\ DOMAIN heat_data = {3, 4, 5}
    /\ filtered_cities = 2

\* C28: for a mapping that is not empty create_heatmap runs to its end and
\* saves the map: the legend's lowest frequency, the minimum count among the
\* records at or above the threshold, is defined, also when no record is.
RunsToCompletion ==
    hm_counts # <<>> => hm_pc \notin {"NameError", "ValueError"}

\* the loop of create_heatmap is over
LoopOver ==
    \/ hm_pc = "loop" /\ hm_todo = {}
    \/ hm_pc \in {"save", "done", "ValueError"}

\* C29: when some record has count >= 3 the records of the maximum count are
\* in the density input, so the density input is not empty iff some record
\* has count >= 3; a record of count 1 or 2 is never in it.
MaximumPasses ==
    LoopOver =>
        /\ \A i \in DOMAIN hm_counts :
            (/\ hm_counts[i] >= 3
             /\ \A j \in DOMAIN hm_counts : hm_counts[j] <= hm_counts[i]) =>
                i \in DOMAIN heat_data
        /\ (DOMAIN heat_data # {}) <=>
                (\E i \in DOMAIN hm_counts : hm_counts[i] >= 3)
        /\ \A i \in DOMAIN hm_counts :
            hm_counts[i] \in {1, 2} => i \notin DOMAIN heat_data

\* counts 1, 3 and 50: the mean lifts the threshold above 3, and only the
\* record of the maximum count is in the density input
MaximumPassesWitness ==
    /\ hm_pc = "save"
    /\ hm_counts = <<1, 3, 50>>
    /\ DOMAIN heat_data = {3}
    /\ filtered_cities = 2

(***************************************************************************)
(* Properties of the density input of the five renderers.                  *)
(***************************************************************************)
\* the records the loop of the running renderer has gone through
Expanded == DOMAIN rd_counts \ rd_todo

\* count * k for some k from 2 to 2.5
Linear(count, points) == 2 * count <= points /\ 2 * points <= 5 * count

\* C21: in every renderer a record fed to the density layer gives count * k
\* points for a k from 2 to 2.5, whatever the count (no upper cap).
LinearPoints ==
    /\ \A i \in DOMAIN heat_data : Linear(hm_counts[i], heat_data[i])
    /\ \A i \in DOMAIN density : Linear(rd_counts[i], density[i])

PastBoundary ==
    \/ Called("load_cities_from_csv")
    \/ Called("geocode_cities")
    \/ Called(RendererOf(main_script))

\* C22: when the input CSV does not exist main returns without calling the
\* geocoder, without writing the cache file, without fetching or writing
\* boundary data and without an output file: it calls nothing at all.
MissingInputIsFatal ==
    (main_pc # "idle" /\ csv_file = "absent") =>
        /\ main_pc \in {"csv_check", "returned"}
        /\ trace = <<>>
        /\ ~boundary_written
        /\ ~artifact

\* generate_heatmap_geojson.py has returned on a missing CSV, with no
\* boundary file and a fetch that would have failed
MissingInputIsFatalWitness ==
    /\ main_pc = "returned"
    /\ csv_file = "absent"
    /\ main_script = "generate_heatmap_geojson"
    /\ geojson_file = "absent"
    /\ fetch = "raise"
    /\ trace = <<>>

\* the boundary file is missing and the script has no fallback for it
Unobtainable ==
    /\ main_pc # "idle"
    /\ geojson_file = "absent"
    /\ \/ main_script = "generate_static_heatmap"
       \/ main_script = "generate_heatmap_svg" /\ fetch # "ok"

\* C23: in generate_static_heatmap.py when the boundary file is missing, and
\* in generate_heatmap_svg.py when it is missing and the download fails,
\* main returns before loading the CSV, without calling the geocoder,
\* without writing the cache file and without an output file.
MissingBoundaryIsFatal ==
    Unobtainable =>
        /\ main_pc \in {"csv_check", "load_geojson", "no_boundary", "returned"}
        /\ ~PastBoundary
        /\ ~boundary_written
        /\ ~artifact

\* generate_static_heatmap.py has returned with the CSV in place and the
\* boundary file missing
MissingBoundaryIsFatalWitness ==
    /\ main_pc = "returned"
    /\ main_script = "generate_static_heatmap"
    /\ csv_file = "rows"
    /\ geojson_file = "absent"
    /\ trace = <<"load_geojson">>

\* C24: whenever the fetch of the boundary data fails, download_sp_geojson
\* gives the hardcoded polygon and the run goes on to geocode and render
\* instead of ending there.
DegradedFallback ==
    (Called("download_sp_geojson") /\ fetch # "ok") =>
        /\ geojson_data = "fallback"
        /\ boundary_written
        /\ main_pc = "returned" /\ csv_file = "rows" =>
                Called("geocode_cities")

\* C27: when geocode_cities returns an empty mapping main stops, and the
\* renderer is never called on an empty mapping.
EmptyNeverRendered ==
    Called(RendererOf(main_script)) => geocoded_cities # <<>>

====
